---- MODULE Spec2Model ----
(***************************************************************************)
(* The someval crate: Some2<A, B> and Some3<A, B, C>, "at least one of N"  *)
(* values, with their conversions to and from tuples of Option values,     *)
(* the borrowing view as_ref and the per-slot accessors.                   *)
(*                                                                         *)
(* The library is pure, so the state machine is a client of it: the client *)
(* owns at most one SomeN value (held), may hold a borrowed view of it     *)
(* (view), and keeps the records of its last two library calls (prev,      *)
(* last).                                                                  *)
(* Every action is one library call, with its arguments drawn from the     *)
(* value sets below and its result computed by the operator that models    *)
(* the called function.                                                    *)
(***************************************************************************)
EXTENDS Integers, Sequences, FiniteSets, TLC

VARIABLES held, view, prev, last

vars == <<held, view, prev, last>>

\* ---------------------------------------------------------------- bounds

\* How many ids beyond 13 and 42 the slot type A ranges over.
MaxExtraIds == 0

\* ------------------------------------------------- slot types (lib.rs docs)

\* A = u64 / i64, B = String / &str, C = bool, as in the crate's doc tests.
AVals == {13} \cup (42 .. (42 + MaxExtraIds))
BVals == {"Bob"}
CVals == BOOLEAN

\* ------------------------------------------------------ Option and Result

None == << >>
Some(x) == <<x>>
Opt(S) == {None} \cup {Some(x) : x \in S}

Ok(v) == <<"Ok", v>>
Err(e) == <<"Err", e>>

\* Option::ok_or
ok_or(o, e) == IF Len(o) = 0 THEN Err(e) ELSE Ok(o[1])

\* ------------------------------------------------------------------ Some2

Some2_A(a) == [tag |-> "A", vals |-> <<a>>]
Some2_B(b) == [tag |-> "B", vals |-> <<b>>]
Some2_AB(a, b) == [tag |-> "AB", vals |-> <<a, b>>]

\* Bug variant: the both-present arm keeps only slot a.
Some2_try_from_options_drops_b(a, b) ==
    CASE a = None /\ b = None -> None
      [] a # None /\ b = None -> Some(Some2_A(a[1]))
      [] a = None /\ b # None -> Some(Some2_B(b[1]))
      [] a # None /\ b # None -> Some(Some2_A(a[1]))

Some2_try_from_options(a, b) ==
    CASE a = None /\ b = None -> None
      [] a # None /\ b = None -> Some(Some2_A(a[1]))
      [] a = None /\ b # None -> Some(Some2_B(b[1]))
      [] a # None /\ b # None -> Some(Some2_AB(a[1], b[1]))

\* A shared reference to the i-th field of the borrowed variant's payload.
Ref(i) == [ref |-> i]
Deref(owner, r) == owner.vals[r.ref]

Some2_as_ref(self) ==
    CASE self.tag = "A" -> Some2_A(Ref(1))
      [] self.tag = "B" -> Some2_B(Ref(1))
      [] self.tag = "AB" -> Some2_AB(Ref(1), Ref(2))

\* Bug variant: the AB arm forgets slot b.
Some2_into_AB_forgets_b(sp) ==
    CASE sp.tag = "A" -> <<Some(sp.vals[1]), None>>
      [] sp.tag = "B" -> <<None, Some(sp.vals[1])>>
      [] sp.tag = "AB" -> <<Some(sp.vals[1]), None>>

\* Bug variant: the B arm yields no slot at all.
Some2_into_B_empty(sp) ==
    CASE sp.tag = "A" -> <<Some(sp.vals[1]), None>>
      [] sp.tag = "B" -> <<None, None>>
      [] sp.tag = "AB" -> <<Some(sp.vals[1]), Some(sp.vals[2])>>

Some2_into(sp) ==
    CASE sp.tag = "A" -> <<Some(sp.vals[1]), None>>
      [] sp.tag = "B" -> <<None, Some(sp.vals[1])>>
      [] sp.tag = "AB" -> <<Some(sp.vals[1]), Some(sp.vals[2])>>

Some2_a(self) == Some2_into(self)[1]
Some2_b(self) == Some2_into(self)[2]

\* Bug variant: slot b is not passed on.
Some2_try_from_ignores_b(t) ==
    ok_or(Some2_try_from_options(t[1], None), "no value of any accepted type present")

Some2_try_from(t) ==
    ok_or(Some2_try_from_options(t[1], t[2]), "no value of any accepted type present")

Some2_from(t) == Some2_AB(t[1], t[2])

\* ------------------------------------------------------------------ Some3

Some3_A(a) == [tag |-> "A", vals |-> <<a>>]
Some3_B(b) == [tag |-> "B", vals |-> <<b>>]
Some3_C(c) == [tag |-> "C", vals |-> <<c>>]
Some3_AB(a, b) == [tag |-> "AB", vals |-> <<a, b>>]
Some3_AC(a, c) == [tag |-> "AC", vals |-> <<a, c>>]
Some3_BC(b, c) == [tag |-> "BC", vals |-> <<b, c>>]
Some3_ABC(a, b, c) == [tag |-> "ABC", vals |-> <<a, b, c>>]

\* Bug variant: the (Some, None, Some) arm builds A instead of AC.
Some3_try_from_options_AC_as_A(a, b, c) ==
    CASE a = None /\ b = None /\ c = None -> None
      [] a # None /\ b = None /\ c = None -> Some(Some3_A(a[1]))
      [] a = None /\ b # None /\ c = None -> Some(Some3_B(b[1]))
      [] a = None /\ b = None /\ c # None -> Some(Some3_C(c[1]))
      [] a # None /\ b # None /\ c = None -> Some(Some3_AB(a[1], b[1]))
      [] a # None /\ b = None /\ c # None -> Some(Some3_A(a[1]))
      [] a = None /\ b # None /\ c # None -> Some(Some3_BC(b[1], c[1]))
      [] a # None /\ b # None /\ c # None -> Some(Some3_ABC(a[1], b[1], c[1]))

\* Bug variant: the (Some, Some, None) arm builds B instead of AB.
Some3_try_from_options_AB_as_B(a, b, c) ==
    CASE a = None /\ b = None /\ c = None -> None
      [] a # None /\ b = None /\ c = None -> Some(Some3_A(a[1]))
      [] a = None /\ b # None /\ c = None -> Some(Some3_B(b[1]))
      [] a = None /\ b = None /\ c # None -> Some(Some3_C(c[1]))
      [] a # None /\ b # None /\ c = None -> Some(Some3_B(b[1]))
      [] a # None /\ b = None /\ c # None -> Some(Some3_AC(a[1], c[1]))
      [] a = None /\ b # None /\ c # None -> Some(Some3_BC(b[1], c[1]))
      [] a # None /\ b # None /\ c # None -> Some(Some3_ABC(a[1], b[1], c[1]))

Some3_try_from_options(a, b, c) ==
    CASE a = None /\ b = None /\ c = None -> None
      [] a # None /\ b = None /\ c = None -> Some(Some3_A(a[1]))
      [] a = None /\ b # None /\ c = None -> Some(Some3_B(b[1]))
      [] a = None /\ b = None /\ c # None -> Some(Some3_C(c[1]))
      [] a # None /\ b # None /\ c = None -> Some(Some3_AB(a[1], b[1]))
      [] a # None /\ b = None /\ c # None -> Some(Some3_AC(a[1], c[1]))
      [] a = None /\ b # None /\ c # None -> Some(Some3_BC(b[1], c[1]))
      [] a # None /\ b # None /\ c # None -> Some(Some3_ABC(a[1], b[1], c[1]))

\* Bug variant: the ABC arm borrows only a and b.
Some3_as_ref_ABC_as_AB(self) ==
    CASE self.tag = "A" -> Some3_A(Ref(1))
      [] self.tag = "B" -> Some3_B(Ref(1))
      [] self.tag = "C" -> Some3_C(Ref(1))
      [] self.tag = "AB" -> Some3_AB(Ref(1), Ref(2))
      [] self.tag = "AC" -> Some3_AC(Ref(1), Ref(2))
      [] self.tag = "BC" -> Some3_BC(Ref(1), Ref(2))
      [] self.tag = "ABC" -> Some3_AB(Ref(1), Ref(2))

Some3_as_ref(self) ==
    CASE self.tag = "A" -> Some3_A(Ref(1))
      [] self.tag = "B" -> Some3_B(Ref(1))
      [] self.tag = "C" -> Some3_C(Ref(1))
      [] self.tag = "AB" -> Some3_AB(Ref(1), Ref(2))
      [] self.tag = "AC" -> Some3_AC(Ref(1), Ref(2))
      [] self.tag = "BC" -> Some3_BC(Ref(1), Ref(2))
      [] self.tag = "ABC" -> Some3_ABC(Ref(1), Ref(2), Ref(3))

\* Bug variant: the AC arm forgets slot c.
Some3_into_AC_forgets_c(sp) ==
    CASE sp.tag = "A" -> <<Some(sp.vals[1]), None, None>>
      [] sp.tag = "B" -> <<None, Some(sp.vals[1]), None>>
      [] sp.tag = "C" -> <<None, None, Some(sp.vals[1])>>
      [] sp.tag = "AB" -> <<Some(sp.vals[1]), Some(sp.vals[2]), None>>
      [] sp.tag = "AC" -> <<Some(sp.vals[1]), None, None>>
      [] sp.tag = "BC" -> <<None, Some(sp.vals[1]), Some(sp.vals[2])>>
      [] sp.tag = "ABC" -> <<Some(sp.vals[1]), Some(sp.vals[2]), Some(sp.vals[3])>>

Some3_into(sp) ==
    CASE sp.tag = "A" -> <<Some(sp.vals[1]), None, None>>
      [] sp.tag = "B" -> <<None, Some(sp.vals[1]), None>>
      [] sp.tag = "C" -> <<None, None, Some(sp.vals[1])>>
      [] sp.tag = "AB" -> <<Some(sp.vals[1]), Some(sp.vals[2]), None>>
      [] sp.tag = "AC" -> <<Some(sp.vals[1]), None, Some(sp.vals[2])>>
      [] sp.tag = "BC" -> <<None, Some(sp.vals[1]), Some(sp.vals[2])>>
      [] sp.tag = "ABC" -> <<Some(sp.vals[1]), Some(sp.vals[2]), Some(sp.vals[3])>>

Some3_a(self) == Some3_into(self)[1]
Some3_b(self) == Some3_into(self)[2]
\* Bug variant: c written as its own match, which misses the ABC variant.
Some3_c_misses_ABC(self) ==
    CASE self.tag = "C" -> Some(self.vals[1])
      [] self.tag \in {"AC", "BC"} -> Some(self.vals[2])
      [] OTHER -> None

Some3_c(self) == Some3_into(self)[3]

Some3_try_from(t) ==
    ok_or(Some3_try_from_options(t[1], t[2], t[3]), "no value of any accepted type present")

\* Bug variant: the full tuple is turned into AB, losing c.
Some3_from_as_AB(t) == Some3_AB(t[1], t[2])

Some3_from(t) == Some3_ABC(t[1], t[2], t[3])

\* ----------------------------------------------------------- the client

\* Nothing owned (never constructed, construction failed, or moved out).
Nothing == [n |-> 0, v |-> None]
Hold(n, v) == [n |-> n, v |-> v]

\* No live borrow.
NoView == [n |-> 0, v |-> None, of |-> None]

\* The record of one library call; owner is the value a borrowed receiver
\* points into (None for a call on an owned receiver or on plain arguments).
Call(n, op, arg, ret, borrowed, owner) ==
    [n |-> n, op |-> op, arg |-> arg, ret |-> ret, borrowed |-> borrowed, owner |-> owner]

\* No call yet.
NoCall == Call(0, "none", None, None, FALSE, None)

\* The client records the call it has just made and keeps the one before it.
Push(c) ==
    /\ prev' = last
    /\ last' = c

\* A construction binds its result (if any) and ends any borrow of the old value.
Bind(n, opt) ==
    /\ held' = IF Len(opt) = 0 THEN Nothing ELSE Hold(n, opt[1])
    /\ view' = NoView

\* A by-value receiver is moved out of the client.
Consume ==
    /\ held' = Nothing
    /\ view' = NoView

Init ==
    /\ held = Nothing
    /\ view = NoView
    /\ prev = NoCall
    /\ last = NoCall

\* ------------------------------------------------------- actions, Some2

Some2Variants ==
    {Some2_A(a) : a \in AVals} \cup {Some2_B(b) : b \in BVals}
        \cup {Some2_AB(a, b) : a \in AVals, b \in BVals}

\* Some2::A(a), Some2::B(b), Some2::AB(a, b)
Variant2 ==
    \E v \in Some2Variants :
        /\ Push(Call(2, v.tag, v.vals, v, FALSE, None))
        /\ Bind(2, Some(v))

TryFromOptions2 ==
    \E a \in Opt(AVals), b \in Opt(BVals) :
        LET r == Some2_try_from_options(a, b) IN
        /\ Push(Call(2, "try_from_options", <<a, b>>, r, FALSE, None))
        /\ Bind(2, r)

TryFrom2 ==
    \E a \in Opt(AVals), b \in Opt(BVals) :
        LET r == Some2_try_from(<<a, b>>) IN
        /\ Push(Call(2, "try_from", <<a, b>>, r, FALSE, None))
        /\ Bind(2, IF r[1] = "Ok" THEN Some(r[2]) ELSE None)

From2 ==
    \E a \in AVals, b \in BVals :
        LET v == Some2_from(<<a, b>>) IN
        /\ Push(Call(2, "from", <<a, b>>, v, FALSE, None))
        /\ Bind(2, Some(v))

AsRef2 ==
    /\ held.n = 2
    /\ LET r == Some2_as_ref(held.v) IN
        /\ Push(Call(2, "as_ref", held.v, r, FALSE, None))
        /\ view' = [n |-> 2, v |-> r, of |-> held.v]
    /\ UNCHANGED held

Into2 ==
    /\ held.n = 2
    /\ Push(Call(2, "into", held.v, Some2_into(held.v), FALSE, None))
    /\ Consume

Acc2_a ==
    /\ held.n = 2
    /\ Push(Call(2, "a", held.v, Some2_a(held.v), FALSE, None))
    /\ Consume

Acc2_b ==
    /\ held.n = 2
    /\ Push(Call(2, "b", held.v, Some2_b(held.v), FALSE, None))
    /\ Consume

\* v.as_ref().a() / v.as_ref().b(): the receiver is the borrowed view.
RefAcc2_a ==
    /\ view.n = 2
    /\ Push(Call(2, "a", view.v, Some2_a(view.v), TRUE, view.of))
    /\ UNCHANGED <<held, view>>

RefAcc2_b ==
    /\ view.n = 2
    /\ Push(Call(2, "b", view.v, Some2_b(view.v), TRUE, view.of))
    /\ UNCHANGED <<held, view>>

\* ------------------------------------------------------- actions, Some3

Some3Variants ==
    {Some3_A(a) : a \in AVals} \cup {Some3_B(b) : b \in BVals}
        \cup {Some3_C(c) : c \in CVals}
        \cup {Some3_AB(a, b) : a \in AVals, b \in BVals}
        \cup {Some3_AC(a, c) : a \in AVals, c \in CVals}
        \cup {Some3_BC(b, c) : b \in BVals, c \in CVals}
        \cup UNION {{Some3_ABC(a, b, c) : a \in AVals, b \in BVals} : c \in CVals}

Variant3 ==
    \E v \in Some3Variants :
        /\ Push(Call(3, v.tag, v.vals, v, FALSE, None))
        /\ Bind(3, Some(v))

TryFromOptions3 ==
    \E a \in Opt(AVals), b \in Opt(BVals), c \in Opt(CVals) :
        LET r == Some3_try_from_options(a, b, c) IN
        /\ Push(Call(3, "try_from_options", <<a, b, c>>, r, FALSE, None))
        /\ Bind(3, r)

TryFrom3 ==
    \E a \in Opt(AVals), b \in Opt(BVals), c \in Opt(CVals) :
        LET r == Some3_try_from(<<a, b, c>>) IN
        /\ Push(Call(3, "try_from", <<a, b, c>>, r, FALSE, None))
        /\ Bind(3, IF r[1] = "Ok" THEN Some(r[2]) ELSE None)

From3 ==
    \E a \in AVals, b \in BVals, c \in CVals :
        LET v == Some3_from(<<a, b, c>>) IN
        /\ Push(Call(3, "from", <<a, b, c>>, v, FALSE, None))
        /\ Bind(3, Some(v))

AsRef3 ==
    /\ held.n = 3
    /\ LET r == Some3_as_ref(held.v) IN
        /\ Push(Call(3, "as_ref", held.v, r, FALSE, None))
        /\ view' = [n |-> 3, v |-> r, of |-> held.v]
    /\ UNCHANGED held

Into3 ==
    /\ held.n = 3
    /\ Push(Call(3, "into", held.v, Some3_into(held.v), FALSE, None))
    /\ Consume

Acc3_a ==
    /\ held.n = 3
    /\ Push(Call(3, "a", held.v, Some3_a(held.v), FALSE, None))
    /\ Consume

Acc3_b ==
    /\ held.n = 3
    /\ Push(Call(3, "b", held.v, Some3_b(held.v), FALSE, None))
    /\ Consume

Acc3_c ==
    /\ held.n = 3
    /\ Push(Call(3, "c", held.v, Some3_c(held.v), FALSE, None))
    /\ Consume

RefAcc3_a ==
    /\ view.n = 3
    /\ Push(Call(3, "a", view.v, Some3_a(view.v), TRUE, view.of))
    /\ UNCHANGED <<held, view>>

RefAcc3_b ==
    /\ view.n = 3
    /\ Push(Call(3, "b", view.v, Some3_b(view.v), TRUE, view.of))
    /\ UNCHANGED <<held, view>>

RefAcc3_c ==
    /\ view.n = 3
    /\ Push(Call(3, "c", view.v, Some3_c(view.v), TRUE, view.of))
    /\ UNCHANGED <<held, view>>

Next ==
    \/ Variant2 \/ TryFromOptions2 \/ TryFrom2 \/ From2
    \/ AsRef2 \/ Into2 \/ Acc2_a \/ Acc2_b \/ RefAcc2_a \/ RefAcc2_b
    \/ Variant3 \/ TryFromOptions3 \/ TryFrom3 \/ From3
    \/ AsRef3 \/ Into3 \/ Acc3_a \/ Acc3_b \/ Acc3_c
    \/ RefAcc3_a \/ RefAcc3_b \/ RefAcc3_c

Spec == Init /\ [][Next]_vars

\* ------------------------------------------- vocabulary of the properties

\* The slots a variant's letters name: A = 1, B = 2, C = 3.
Letters(tag) ==
    CASE tag = "A" -> {1}
      [] tag = "B" -> {2}
      [] tag = "C" -> {3}
      [] tag = "AB" -> {1, 2}
      [] tag = "AC" -> {1, 3}
      [] tag = "BC" -> {2, 3}
      [] tag = "ABC" -> {1, 2, 3}
      [] OTHER -> {}

\* The value a variant carries for slot i of its letter set.
Slot(v, i) == v.vals[Cardinality({j \in Letters(v.tag) : j <= i})]

AllNone(t) == \A i \in 1..Len(t) : Len(t[i]) = 0
Populated(t) == {i \in 1..Len(t) : Len(t[i]) = 1}

\* The populated components of a tuple of options, in slot order.
Flatten(t) == IF Len(t) = 2 THEN t[1] \o t[2] ELSE t[1] \o t[2] \o t[3]

\* Derived PartialEq on SomeN: same variant, equal contained values.
SameSome(v, w) == v.tag = w.tag /\ v.vals = w.vals

Decompose(n, v) == IF n = 2 THEN Some2_into(v) ELSE Some3_into(v)

FallibleOf(n, t) ==
    IF n = 2 THEN Some2_try_from_options(t[1], t[2])
    ELSE Some3_try_from_options(t[1], t[2], t[3])

SlotOfAccessor(op) == CASE op = "a" -> 1 [] op = "b" -> 2 [] op = "c" -> 3

\* ------------------------------------------------------------ properties

\* C1: try_from_options returns None if and only if every input option is
\* None; otherwise it returns Some(v), where v's letter set is exactly the set
\* of populated input slots and v carries exactly those values in slot order.
C1_TryFromOptionsExact ==
    last.op = "try_from_options" =>
        /\ Len(last.ret) = 0 <=> AllNone(last.arg)
        /\ Len(last.ret) = 1 =>
            /\ Letters(last.ret[1].tag) = Populated(last.arg)
            /\ last.ret[1].vals = Flatten(last.arg)

\* A rejected all-None call followed by a Some3 call that built AC.
C1_Witness ==
    /\ prev.op = "try_from_options" /\ AllNone(prev.arg) /\ Len(prev.ret) = 0
    /\ last.op = "try_from_options" /\ last.n = 3
    /\ Len(last.ret) = 1 /\ last.ret[1].tag = "AC"

\* C2: every Some2 or Some3 value the client can come to own or borrow,
\* however it was produced, decomposes into a tuple that is not all-None.
C2_NonEmpty ==
    /\ held.n # 0 => ~AllNone(Decompose(held.n, held.v))
    /\ view.n # 0 => ~AllNone(Decompose(view.n, view.v))

\* A Some2::B value produced by TryFrom, owned and borrowed through as_ref.
C2_Witness ==
    /\ prev.op = "try_from" /\ last.op = "as_ref"
    /\ held.n = 2 /\ held.v.tag = "B" /\ view.n = 2

\* C3: for every tuple of options t that is not all-None, decomposing the
\* value try_from_options(t) returned yields a tuple equal to t.
C3_RoundTripOptions ==
    (/\ prev.op = "try_from_options" /\ ~AllNone(prev.arg)
     /\ last.op = "into" /\ last.n = prev.n /\ ~last.borrowed)
        => /\ Len(prev.ret) = 1
           /\ SameSome(last.arg, prev.ret[1])
           /\ last.ret = prev.arg

\* (Some(42), Some("Bob")) built by Some2::try_from_options, then decomposed.
C3_Witness ==
    /\ prev.op = "try_from_options" /\ prev.n = 2 /\ Populated(prev.arg) = {1, 2}
    /\ Len(prev.ret) = 1 /\ last.op = "into" /\ last.n = 2
    /\ SameSome(last.arg, prev.ret[1])

\* C4: for every Some2 or Some3 value v, passing the components of v's
\* decomposition to try_from_options succeeds and returns a value equal to v,
\* of the same variant.
C4_RoundTripValue ==
    (/\ prev.op = "into" /\ ~prev.borrowed
     /\ last.op = "try_from_options" /\ last.n = prev.n
     /\ last.arg = prev.ret)
        => /\ Len(last.ret) = 1
           /\ last.ret[1].tag = prev.arg.tag
           /\ SameSome(last.ret[1], prev.arg)

\* Some2::AB decomposed, and the tuple passed back to Some2::try_from_options.
C4_Witness ==
    /\ prev.op = "into" /\ prev.n = 2 /\ prev.arg.tag = "AB"
    /\ last.op = "try_from_options" /\ last.n = 2 /\ last.arg = prev.ret
    /\ Len(last.ret) = 1

\* C5: TryFrom on a tuple of options returns Err with exactly the message
\* "no value of any accepted type present" if and only if every component is
\* None; for every other tuple it returns Ok(v), v being the value
\* try_from_options returns for the same components.
C5_TryFromResult ==
    last.op = "try_from" =>
        /\ Len(last.ret) = 2
        /\ last.ret[1] \in {"Ok", "Err"}
        /\ last.ret[1] = "Err" <=> AllNone(last.arg)
        /\ last.ret[1] = "Err" => last.ret[2] = "no value of any accepted type present"
        /\ last.ret[1] = "Ok" =>
            /\ Len(FallibleOf(last.n, last.arg)) = 1
            /\ SameSome(last.ret[2], FallibleOf(last.n, last.arg)[1])
            /\ Letters(last.ret[2].tag) = Populated(last.arg)

\* An Err from the all-None pair, then an Ok(AB) from a full pair.
C5_Witness ==
    /\ prev.op = "try_from" /\ prev.n = 2 /\ AllNone(prev.arg) /\ prev.ret[1] = "Err"
    /\ last.op = "try_from" /\ last.n = 2 /\ last.ret[1] = "Ok"
    /\ last.ret[2].tag = "AB"

\* C6: decomposition is total and, for the variant of subset S, yields
\* Some(value of slot i) at every position i in S and None at every other
\* position; Some3::AC(42, false) decomposes to (Some(42), None, Some(false)).
C6_DecomposeBySubset ==
    (last.op = "into" /\ ~last.borrowed) =>
        /\ Len(last.ret) = last.n
        /\ \A i \in 1..last.n :
            IF i \in Letters(last.arg.tag)
            THEN Len(last.ret[i]) = 1 /\ last.ret[i][1] = Slot(last.arg, i)
            ELSE Len(last.ret[i]) = 0
        /\ (last.n = 3 /\ last.arg.tag = "AC" /\ last.arg.vals = <<42, FALSE>>)
            => last.ret = <<Some(42), None, Some(FALSE)>>

\* Some3::AC(42, false), built directly, has been decomposed.
C6_Witness ==
    /\ prev.op = "AC" /\ prev.n = 3
    /\ last.op = "into" /\ last.n = 3 /\ last.arg.tag = "AC"
    /\ last.arg.vals = <<42, FALSE>>

\* C7: a per-slot accessor returns exactly the i-th component of its
\* receiver's decomposition: Some(value) if and only if slot i belongs to the
\* variant, None otherwise; on v.as_ref() it returns a reference to v's slot
\* value, or None.
C7_AccessorConsistency ==
    last.op \in {"a", "b", "c"} =>
        LET i == SlotOfAccessor(last.op) IN
        /\ Len(last.ret) = 1 <=> i \in Letters(last.arg.tag)
        /\ Len(last.ret) = Len(Decompose(last.n, last.arg)[i])
        /\ Len(last.ret) = 1 =>
            /\ last.ret[1] = Slot(last.arg, i)
            /\ last.ret = Decompose(last.n, last.arg)[i]
        /\ last.borrowed =>
            /\ Letters(last.owner.tag) = Letters(last.arg.tag)
            /\ Len(last.ret) = 1 => Deref(last.owner, last.ret[1]) = Slot(last.owner, i)

\* c() on a borrowed Some3::ABC, right after as_ref.
C7_Witness ==
    /\ prev.op = "as_ref" /\ prev.n = 3
    /\ last.op = "c" /\ last.n = 3 /\ last.borrowed
    /\ last.owner.tag = "ABC" /\ Len(last.ret) = 1

\* C8: v.as_ref() has the same variant as v, every borrowed slot dereferences
\* to a value equal to the corresponding slot of v, and v is unchanged: the
\* client still owns it after the call.
C8_AsRefFidelity ==
    last.op = "as_ref" =>
        /\ last.ret.tag = last.arg.tag
        /\ Len(last.ret.vals) = Len(last.arg.vals)
        /\ \A i \in Letters(last.arg.tag) :
            Deref(last.arg, Slot(last.ret, i)) = Slot(last.arg, i)
        /\ held.n = last.n
        /\ SameSome(held.v, last.arg)
        /\ view.n = last.n /\ SameSome(view.of, last.arg)

\* as_ref on a Some3::ABC value.
C8_Witness ==
    /\ last.op = "as_ref" /\ last.n = 3 /\ last.arg.tag = "ABC"
    /\ held.n = 3 /\ view.n = 3

\* C9: From of a fully-populated tuple produces the all-slots variant (AB,
\* ABC) holding the tuple's values in order, and decomposing it yields
\* (Some(t1), ..., Some(tN)); Some2::from((13, "Bob")) is Some2::AB(13, "Bob").
C9_FromFullTuple ==
    /\ last.op = "from" =>
        /\ last.ret.tag = (IF last.n = 2 THEN "AB" ELSE "ABC")
        /\ last.ret.vals = last.arg
        /\ (last.n = 2 /\ last.arg = <<13, "Bob">>) => SameSome(last.ret, Some2_AB(13, "Bob"))
    /\ (prev.op = "from" /\ last.op = "into" /\ last.n = prev.n /\ ~last.borrowed) =>
        /\ SameSome(last.arg, prev.ret)
        /\ Len(last.ret) = prev.n
        /\ \A i \in 1..prev.n : Len(last.ret[i]) = 1 /\ last.ret[i][1] = prev.arg[i]

\* Some3::from of a full triple, then its decomposition.
C9_Witness ==
    /\ prev.op = "from" /\ prev.n = 3 /\ prev.ret.tag = "ABC"
    /\ last.op = "into" /\ last.n = 3 /\ Populated(last.ret) = {1, 2, 3}

\* C10: Some3 with an absent third slot converts as Some2 does: for all
\* options a and b, Some3::try_from_options(a, b, None) is None exactly when
\* Some2::try_from_options(a, b) is; otherwise both return the variant of the
\* same name with the same values, and the Some3 decomposition is the Some2
\* decomposition followed by None.
C10_Some3RestrictsToSome2 ==
    (/\ prev.op = "try_from_options" /\ prev.n = 2
     /\ last.op = "try_from_options" /\ last.n = 3
     /\ Len(last.arg[3]) = 0
     /\ last.arg[1] = prev.arg[1] /\ last.arg[2] = prev.arg[2])
        => /\ Len(last.ret) = Len(prev.ret)
           /\ Len(prev.ret) = 1 =>
                /\ last.ret[1].tag \in {"A", "B", "AB"}
                /\ SameSome(last.ret[1], prev.ret[1])
                /\ Some3_into(last.ret[1]) = Some2_into(prev.ret[1]) \o <<None>>

\* Some2::try_from_options(Some, Some), then Some3 on the same pair and None.
C10_Witness ==
    /\ prev.op = "try_from_options" /\ prev.n = 2 /\ Len(prev.ret) = 1
    /\ prev.ret[1].tag = "AB"
    /\ last.op = "try_from_options" /\ last.n = 3 /\ Len(last.arg[3]) = 0
    /\ last.arg[1] = prev.arg[1] /\ last.arg[2] = prev.arg[2]
    /\ Len(last.ret) = 1

====
